---- MODULE Spec2Model ----
(***************************************************************************)
(* The in-process Bayesian-optimisation page of                            *)
(* page.tsx (the second module of the file, lines 801-1650),              *)
(* specification Spec, and the remote-provider page (the first module,     *)
(* lines 1-800), specification RemoteSpec, at the end of this module:      *)
(* the SimpleBayesianOptimizer engine and the HomePage session state       *)
(* machine (setup -> manual -> optimization) with its localStorage record. *)
(*                                                                         *)
(* Text is a sequence of one-character strings, so that trim, split,       *)
(* parseFloat, Number, toFixed and toString are computed and not assumed.  *)
(* A JavaScript number is a record [k, v]: k = "num" with v the value in   *)
(* fixed-point units of 1/Unit, or k = "nan", "inf", "ninf".               *)
(* A React handler reads the state of the render it was created in and     *)
(* its setState calls take effect together afterwards: every action reads  *)
(* unprimed variables only and the last set of a variable wins.  The       *)
(* optimizer object and the trial objects are mutated in place.            *)
(***************************************************************************)
EXTENDS Integers, Sequences, FiniteSets, TLC

VARIABLES parameters, direction, results, isOptimizing, currentParams,
          numericParams, objectiveValue, currentIter, totalIter, history,
          error, categoryMaps, phase, manualTrials, currentTrialIndex,
          trialCount, savedConfig, optimizer, storage, navigations, reloads,
          isLoading, provider, flows, failures, suggested

vars == <<parameters, direction, results, isOptimizing, currentParams,
          numericParams, objectiveValue, currentIter, totalIter, history,
          error, categoryMaps, phase, manualTrials, currentTrialIndex,
          trialCount, savedConfig, optimizer, storage, navigations, reloads,
          isLoading, provider, flows, failures, suggested>>

(***************************************************************************)
(* Bounds of the model and constants of the program.                       *)
(***************************************************************************)
\* fixed-point resolution of a number: one unit is 1/Unit
Unit == 1000
\* Math.random() returns k/RandDen for k in 0..RandDen-1
RandDen == 2
\* presses of the trial navigation buttons (previous step, quick
\* navigation) and page reloads in one behaviour; the setup form is edited
\* before the first of them only
MaxNavigations == 1
MaxReloads == 1
\* the session history is at most this long while trials are submitted
MaxManualHistory == 4
\* a page reload is followed only while the stored history is this short
MaxReloadHistory == 2
\* the suggestions of the first FreeIters iterations of a run draw freely,
\* the later ones draw 0
FreeIters == 1
\* the first FreeTrials trials take every modelled input
FreeTrials == 1
\* handler flows of the remote page suspended on a call at one time
MaxFlows == 2
\* remote calls that fail in one behaviour
MaxFailures == 1

\* numCandidates of acquisitionFunction
NumCandidates == 100
\* observations below which suggest() samples at random
ColdStart == 3
\* evaluations after the seed trials
ExtraIters == 30
\* trial count limits of startManualInput
MinTrials == 3
MaxTrials == 10
\* digits of toFixed(4)
DisplayDecimals == 4

Null == [none |-> TRUE]
\* null where a number[] is expected, and where a name-to-text object is
NullVector == <<[k |-> "null", v |-> 0]>>
NullParams == [n \in {<<"n", "u", "l", "l">>} |-> <<>>]

(***************************************************************************)
(* Numbers                                                                 *)
(***************************************************************************)
NaN == [k |-> "nan", v |-> 0]
PosInf == [k |-> "inf", v |-> 0]
NegInf == [k |-> "ninf", v |-> 0]
Num(x) == [k |-> "num", v |-> x]
IsNum(a) == a.k = "num"
IsNaN(a) == a.k = "nan"

\* a < b of JavaScript: false when either side is NaN
Lt(a, b) ==
    CASE a.k = "nan" \/ b.k = "nan" -> FALSE
      [] a.k = "ninf" -> b.k # "ninf"
      [] a.k = "inf" -> FALSE
      [] b.k = "inf" -> TRUE
      [] b.k = "ninf" -> FALSE
      [] OTHER -> a.v < b.v

Gt(a, b) == Lt(b, a)

\* x || 0
OrZero(a) == IF IsNaN(a) THEN Num(0) ELSE a

Pow10(n) == IF n = 0 THEN 1 ELSE IF n = 1 THEN 10 ELSE IF n = 2 THEN 100
            ELSE IF n = 3 THEN 1000 ELSE IF n = 4 THEN 10000 ELSE 100000

\* Math.round(x) as an integer: floor(x + 0.5)
RoundInt(a) == (2 * a.v + Unit) \div (2 * Unit)

RECURSIVE ISqrtIn(_, _, _)
ISqrtIn(n, lo, hi) ==
    IF lo >= hi THEN lo
    ELSE LET mid == (lo + hi + 1) \div 2
         IN IF mid * mid <= n THEN ISqrtIn(n, mid, hi)
            ELSE ISqrtIn(n, lo, mid - 1)

\* Math.sqrt on fixed-point squares, rounded down to a unit
ISqrt(n) == ISqrtIn(n, 0, IF n < 46340 THEN n ELSE 46340)

(***************************************************************************)
(* Text                                                                    *)
(***************************************************************************)
Digits == <<"0", "1", "2", "3", "4", "5", "6", "7", "8", "9">>
IsDigit(c) == \E i \in 1..10 : Digits[i] = c
DigitVal(c) == (CHOOSE i \in 1..10 : Digits[i] = c) - 1

RECURSIVE TrimLeft(_)
TrimLeft(s) == IF s # <<>> /\ Head(s) = " " THEN TrimLeft(Tail(s)) ELSE s

RECURSIVE TrimRight(_)
TrimRight(s) ==
    IF s # <<>> /\ s[Len(s)] = " " THEN TrimRight(SubSeq(s, 1, Len(s) - 1))
    ELSE s

\* String.prototype.trim
Trim(s) == TrimRight(TrimLeft(s))

\* s.replace(/[chars]/g, '')
Remove(s, chars) == SelectSeq(s, LAMBDA c : c \notin chars)

\* s.replace(/[^chars]/g, '')
Keep(s, chars) == SelectSeq(s, LAMBDA c : c \in chars)

DigitChars == {Digits[i] : i \in 1..10}

RECURSIVE SkipSeps(_, _)
SkipSeps(s, seps) ==
    IF s # <<>> /\ Head(s) \in seps THEN SkipSeps(Tail(s), seps) ELSE s

RECURSIVE SplitFrom(_, _, _, _)
SplitFrom(s, seps, runs, cur) ==
    IF s = <<>> THEN <<cur>>
    ELSE IF Head(s) \in seps
         THEN <<cur>> \o SplitFrom(IF runs THEN SkipSeps(Tail(s), seps)
                                   ELSE Tail(s), seps, runs, <<>>)
         ELSE SplitFrom(Tail(s), seps, runs, Append(cur, Head(s)))

\* s.split(',') (runs = FALSE) and s.split(/[seps]+/) (runs = TRUE)
Split(s, seps, runs) == SplitFrom(s, seps, runs, <<>>)

RECURSIVE TakeDigits(_)
TakeDigits(s) ==
    IF s # <<>> /\ IsDigit(Head(s)) THEN <<Head(s)>> \o TakeDigits(Tail(s))
    ELSE <<>>

RECURSIVE IntOf(_)
IntOf(ds) ==
    IF ds = <<>> THEN 0
    ELSE 10 * IntOf(SubSeq(ds, 1, Len(ds) - 1)) + DigitVal(ds[Len(ds)])

\* the value of 0.ds in units, to the nearest unit
FracUnits(ds) ==
    IF ds = <<>> THEN 0
    ELSE (2 * IntOf(ds) * Unit + Pow10(Len(ds))) \div (2 * Pow10(Len(ds)))

\* the parts of a decimal literal at the start of s: sign, integer digits,
\* fraction digits and what follows (exponents, hexadecimal and the word
\* Infinity are not among the modelled inputs)
Literal(s) ==
    LET neg == s # <<>> /\ Head(s) = "-"
        u == IF s # <<>> /\ Head(s) \in {"-", "+"} THEN Tail(s) ELSE s
        ip == TakeDigits(u)
        r == SubSeq(u, Len(ip) + 1, Len(u))
        dot == r # <<>> /\ Head(r) = "."
        fp == IF dot THEN TakeDigits(Tail(r)) ELSE <<>>
        used == Len(ip) + (IF dot THEN 1 + Len(fp) ELSE 0)
    IN [neg |-> neg, ip |-> ip, fp |-> fp,
        rest |-> SubSeq(u, used + 1, Len(u))]

LiteralValue(l) ==
    IF l.ip = <<>> /\ l.fp = <<>> THEN NaN
    ELSE Num((IF l.neg THEN -1 ELSE 1) * (IntOf(l.ip) * Unit + FracUnits(l.fp)))

Undefined == <<"undefined">>

\* parseFloat(s): the longest numeric prefix; NaN when there is none
ParseFloat(s) ==
    IF s = Undefined THEN NaN ELSE LiteralValue(Literal(TrimLeft(s)))

\* Number(s): the whole text must be a literal; the empty text is 0
NumberOf(s) ==
    LET t == Trim(s)
        l == Literal(t)
    IN IF t = <<>> THEN Num(0)
       ELSE IF l.rest # <<>> THEN NaN ELSE LiteralValue(l)

RECURSIVE NatToStr(_)
NatToStr(n) ==
    IF n < 10 THEN <<Digits[n + 1]>>
    ELSE NatToStr(n \div 10) \o <<Digits[(n % 10) + 1]>>

RECURSIVE PadLeft(_, _)
PadLeft(s, n) == IF Len(s) >= n THEN s ELSE PadLeft(<<"0">> \o s, n)

NaNText == <<"N", "a", "N">>

\* Math.round(x).toString()
RoundToString(a) ==
    IF ~IsNum(a) THEN NaNText
    ELSE LET n == RoundInt(a)
         IN IF n < 0 THEN <<"-">> \o NatToStr(-n) ELSE NatToStr(n)

\* x.toFixed(4)
ToFixed(a) ==
    IF ~IsNum(a) THEN NaNText
    ELSE LET p == Pow10(DisplayDecimals)
             m == IF a.v < 0 THEN -a.v ELSE a.v
             n == (2 * m * p + Unit) \div (2 * Unit)
         IN (IF a.v < 0 THEN <<"-">> ELSE <<>>) \o NatToStr(n \div p)
            \o <<".">> \o PadLeft(NatToStr(n % p), DisplayDecimals)

(***************************************************************************)
(* SimpleBayesianOptimizer: [observations, bounds, maximize]               *)
(***************************************************************************)
\* a constructor that ignores the direction   (mutant)
NewOptimizerMaximizing(bounds, maximize) ==
    [observations |-> <<>>, bounds |-> bounds, maximize |-> TRUE]

\* new SimpleBayesianOptimizer(bounds, maximize)
NewOptimizer(bounds, maximize) ==
    [observations |-> <<>>, bounds |-> bounds, maximize |-> maximize]

\* an addObservation that puts the observation first
AddObservationFirst(opt, params, value) ==
    [opt EXCEPT !.observations =
        <<[params |-> params, value |-> value]>> \o @]

\* an addObservation that skips a vector the log already holds
AddObservationOnce(opt, params, value) ==
    IF \E i \in 1..Len(opt.observations) : opt.observations[i].params = params
    THEN opt
    ELSE [opt EXCEPT !.observations =
             Append(@, [params |-> params, value |-> value])]

\* addObservation(params, value): push at the end
AddObservation(opt, params, value) ==
    [opt EXCEPT !.observations =
        Append(@, [params |-> params, value |-> value])]

\* b[i] of an array: undefined (NaN in arithmetic) past its end
Coord(vec, i) == IF i \in 1..Len(vec) THEN vec[i] ELSE NaN

\* min + Math.random() * (max - min) with Math.random() = k / RandDen
Sample(row, k) ==
    IF ~IsNum(row[1]) \/ ~IsNum(row[2]) THEN NaN
    ELSE Num(row[1].v + (k * (row[2].v - row[1].v)) \div RandDen)

\* this.bounds.map(([min, max]) => min + Math.random() * (max - min))
Candidate(bounds, draw) == [i \in 1..Len(bounds) |-> Sample(bounds[i], draw[i])]

RECURSIVE SumSquares(_, _, _)
SumSquares(a, b, i) ==
    IF i > Len(a) THEN 0
    ELSE (a[i].v - b[i].v) * (a[i].v - b[i].v) + SumSquares(a, b, i + 1)

\* calculateDistance(a, b): NaN as soon as a coordinate of a or the
\* matching coordinate of b is NaN or missing.  The root of the sum of
\* squares lies between the largest coordinate difference and Len(a)
\* times it, where it is searched
CalculateDistance(a, b) ==
    IF \E i \in 1..Len(a) : ~IsNum(a[i]) \/ ~IsNum(Coord(b, i)) THEN NaN
    ELSE IF Len(a) = 0 THEN Num(0)
    ELSE LET diffs == {IF a[i].v < b[i].v THEN b[i].v - a[i].v
                       ELSE a[i].v - b[i].v : i \in 1..Len(a)}
             largest == CHOOSE m \in diffs : \A x \in diffs : x <= m
         IN Num(ISqrtIn(SumSquares(a, b, 1), largest, Len(a) * largest))

\* the distances from params to every observation, in order
RECURSIVE Distances(_, _, _)
Distances(obs, params, i) ==
    IF i > Len(obs) THEN <<>>
    ELSE <<CalculateDistance(params, obs[i].params)>>
         \o Distances(obs, params, i + 1)

\* weight = 1 / (1 + distance), in units
Weight(d) == (Unit * Unit) \div (Unit + d.v)

RECURSIVE WeightedSum(_, _, _)
WeightedSum(obs, distances, i) ==
    IF i > Len(obs) THEN 0
    ELSE Weight(distances[i]) * obs[i].value.v
         + WeightedSum(obs, distances, i + 1)

RECURSIVE TotalWeight(_, _)
TotalWeight(distances, i) ==
    IF i > Len(distances) THEN 0
    ELSE Weight(distances[i]) + TotalWeight(distances, i + 1)

\* estimateMean(params): a NaN distance makes totalWeight NaN, and
\* totalWeight > 0 is then false: the result is 0; a NaN value with
\* numeric distances makes the quotient NaN
EstimateMean(opt, params) ==
    LET obs == opt.observations
        distances == Distances(obs, params, 1)
    IN IF \E i \in 1..Len(obs) : IsNaN(distances[i]) THEN Num(0)
       ELSE LET totalWeight == TotalWeight(distances, 1)
            IN IF ~(totalWeight > 0) THEN Num(0)
               ELSE IF \E i \in 1..Len(obs) : ~IsNum(obs[i].value) THEN NaN
               ELSE Num(WeightedSum(obs, distances, 1) \div totalWeight)

RECURSIVE MinDistance(_, _, _, _)
MinDistance(obs, params, i, best) ==
    IF i > Len(obs) THEN best
    ELSE LET d == CalculateDistance(params, obs[i].params)
         IN IF Lt(d, best) THEN MinDistance(obs, params, i + 1, d)
            ELSE MinDistance(obs, params, i + 1, best)

\* a calculateExploration without the fallback for an unset minimum
CalculateExplorationUnset(opt, params) ==
    MinDistance(opt.observations, params, 1, PosInf)

\* calculateExploration(params)
CalculateExploration(opt, params) ==
    LET m == MinDistance(opt.observations, params, 1, PosInf)
    IN IF m = PosInf THEN Num(Unit) ELSE m

\* calculateAcquisition(params)
CalculateAcquisition(opt, params) ==
    LET mean == EstimateMean(opt, params)
        exploration == CalculateExploration(opt, params)
    IN IF IsNaN(mean) \/ IsNaN(exploration) THEN NaN
       ELSE IF opt.maximize THEN Num(mean.v + exploration.v)
       ELSE Num(mean.v - exploration.v)

\* the replacement test of acquisitionFunction
Better(maximize, acquisition, bestAcquisition) ==
    \/ maximize /\ Gt(acquisition, bestAcquisition)
    \/ ~maximize /\ Lt(acquisition, bestAcquisition)

\* the score table of acquisitionFunction: calculateAcquisition of every
\* candidate drawn, computed once per distinct candidate
Scores(opt, rnd) ==
    {[candidate |-> c, acquisition |-> CalculateAcquisition(opt, c)] :
        c \in {Candidate(opt.bounds, rnd[i]) : i \in 1..NumCandidates}}

\* one pass of the for loop of acquisitionFunction: the candidate replaces
\* the best one only when its score is strictly better
CandidateStep(opt, scores, candidate, best) ==
    LET acquisition ==
            (CHOOSE s \in scores : s.candidate = candidate).acquisition
    IN IF Better(opt.maximize, acquisition, best.bestAcquisition)
       THEN [bestCandidate |-> candidate, bestAcquisition |-> acquisition]
       ELSE best

\* the for loop of acquisitionFunction over candidates first..last, in
\* order, from the best candidate and score so far; the passes of the
\* first half are done before those of the second half
RECURSIVE CandidateLoop(_, _, _, _, _, _)
CandidateLoop(opt, rnd, scores, first, last, best) ==
    IF first = last
    THEN CandidateStep(opt, scores, Candidate(opt.bounds, rnd[first]), best)
    ELSE LET mid == (first + last) \div 2
             half == CandidateLoop(opt, rnd, scores, first, mid, best)
         IN IF half = best
            THEN CandidateLoop(opt, rnd, scores, mid + 1, last, best)
            ELSE CandidateLoop(opt, rnd, scores, mid + 1, last, half)

\* acquisitionFunction(): rnd[i] holds the draws of the i-th candidate
AcquisitionFunction(opt, rnd) ==
    CandidateLoop(opt, rnd, Scores(opt, rnd), 1, NumCandidates,
                  [bestCandidate |-> <<>>,
                   bestAcquisition |-> IF opt.maximize THEN NegInf ELSE PosInf]
                 ).bestCandidate

\* a suggest() that scores candidates whatever the length of the log
SuggestScored(opt, rnd) == AcquisitionFunction(opt, rnd)

\* suggest()
Suggest(opt, rnd) ==
    IF Len(opt.observations) < ColdStart THEN Candidate(opt.bounds, rnd[1])
    ELSE AcquisitionFunction(opt, rnd)

RECURSIVE BestIndex(_, _, _, _)
BestIndex(obs, maximize, i, bestIndex) ==
    IF i > Len(obs) THEN bestIndex
    ELSE IF \/ maximize /\ Gt(obs[i].value, obs[bestIndex].value)
            \/ ~maximize /\ Lt(obs[i].value, obs[bestIndex].value)
         THEN BestIndex(obs, maximize, i + 1, i)
         ELSE BestIndex(obs, maximize, i + 1, bestIndex)

\* a getBestResult that returns the observation added last
GetLastResult(opt) ==
    IF Len(opt.observations) = 0 THEN [params |-> <<>>, value |-> Num(0)]
    ELSE opt.observations[Len(opt.observations)]

\* getBestResult()
GetBestResult(opt) ==
    IF Len(opt.observations) = 0 THEN [params |-> <<>>, value |-> Num(0)]
    ELSE opt.observations[BestIndex(opt.observations, opt.maximize, 2, 1)]

(***************************************************************************)
(* Parameter definitions: [name, type, range]                              *)
(***************************************************************************)
\* the two default names, each written as one character
Temperature == <<"t">>
Pressure == <<"p">>
Range0to10 == <<"0", "-", "1", "0">>
Range10to0 == <<"1", "0", "-", "0">>
RangeWords == <<"a", "b">>
RangeABC == <<"a", ",", "b", ",", "c">>
RangeA == <<"a">>

\* useState<Parameter[]>([...]) of HomePage
DefaultParameters ==
    << [name |-> Temperature, type |-> "continuous", range |-> Range0to10],
       [name |-> Pressure, type |-> "categorical", range |-> RangeABC] >>

\* the parameter added by the add-parameter button
BlankParameter == [name |-> <<>>, type |-> "continuous", range |-> <<>>]

Named(p) == Trim(p.name) # <<>>

\* parameters.filter(p => p.name.trim())
NamedParameters(params) == SelectSeq(params, Named)

\* a filter that forgets the range
NamedOnly(params) == SelectSeq(params, LAMBDA p : Trim(p.name) # <<>>)

\* parameters.filter(param => param.name.trim() && param.range.trim())
ValidParameters(params) ==
    SelectSeq(params, LAMBDA p : Named(p) /\ Trim(p.range) # <<>>)

\* param.range.trim().split(',').map(s => s.trim().replace(/['"]/g, ''))
Categories(p) ==
    LET parts == Split(Trim(p.range), {","}, FALSE)
    IN [i \in 1..Len(parts) |-> Remove(Trim(parts[i]), {"'", "\""})]

\* param.range.trim().replace(/[\[\]]/g, '').split(/[-, ]+/).map(Number)
ParsedRange(p) ==
    LET parts == Split(Remove(Trim(p.range), {"[", "]"}), {"-", ",", " "}, TRUE)
    IN [i \in 1..Len(parts) |-> NumberOf(parts[i])]

\* the range checks of startOptimization on one named parameter: "" when
\* it passes
RangeError(p) ==
    IF p.type = "categorical"
    THEN IF Len(Categories(p)) < 2 THEN "category count" ELSE ""
    ELSE LET parsedRange == ParsedRange(p)
         IN IF \/ Len(parsedRange) # 2
               \/ IsNaN(parsedRange[1])
               \/ IsNaN(parsedRange[2])
            THEN "invalid range" ELSE ""

\* the error of the first named parameter that fails the checks
FirstRangeError(params) ==
    LET named == NamedParameters(params)
        bad == {i \in 1..Len(named) : RangeError(named[i]) # ""}
    IN IF bad = {} THEN ""
       ELSE RangeError(named[CHOOSE i \in bad : \A j \in bad : i <= j])

\* bounds.push(...) of one named parameter
BoundsRow(p) ==
    IF p.type = "categorical"
    THEN <<Num(0), Num((Len(Categories(p)) - 1) * Unit)>>
    ELSE <<Coord(ParsedRange(p), 1), Coord(ParsedRange(p), 2)>>

BuildBounds(params) ==
    LET named == NamedParameters(params)
    IN [i \in 1..Len(named) |-> BoundsRow(named[i])]

\* the last parameter of the list with this trimmed name
LastNamed(params, n) ==
    params[CHOOSE i \in 1..Len(params) :
              /\ Trim(params[i].name) = n
              /\ \A j \in 1..Len(params) : Trim(params[j].name) = n => j <= i]

\* localCategoryMaps: name -> categories of the categorical parameters
BuildCategoryMaps(params) ==
    LET names == {Trim(params[i].name) : i \in
                    {j \in 1..Len(params) : /\ Named(params[j])
                                            /\ params[j].type = "categorical"}}
    IN [n \in names |->
          Categories(LET cat == SelectSeq(params,
                                  LAMBDA p : p.type = "categorical")
                     IN LastNamed(cat, n))]

\* categories.indexOf(label): the first index, from 0, or -1
IndexOf(categories, label) ==
    IF \E i \in 1..Len(categories) : categories[i] = label
    THEN (CHOOSE i \in 1..Len(categories) :
             /\ categories[i] = label
             /\ \A j \in 1..(i - 1) : categories[j] # label) - 1
    ELSE -1

\* obj[name]: undefined for a key the object does not have
Field(obj, n) == IF n \in DOMAIN obj THEN obj[n] ELSE Undefined

\* the coordinate pushed for one named parameter of a trial or history item
EncodeOne(p, maps, values) ==
    LET name == Trim(p.name)
    IN IF p.type = "categorical"
       THEN LET index == IndexOf(maps[name], Field(values, name))
            IN Num((IF index # -1 THEN index ELSE 0) * Unit)
       ELSE OrZero(ParseFloat(Field(values, name)))

\* numericParams of startOptimization and resumeOptimization
Encode(params, maps, values) ==
    LET named == NamedParameters(params)
    IN [i \in 1..Len(named) |-> EncodeOne(named[i], maps, values)]

\* the display loops of fetchNextSuggest and handleRegister throw a
\* TypeError on a categorical parameter without categories and on toFixed
\* of a missing coordinate; index is the position in the whole list
DisplayThrows(params, maps, vec) ==
    \E i \in 1..Len(params) :
        /\ Named(params[i])
        /\ \/ params[i].type = "categorical" /\ Trim(params[i].name) \notin DOMAIN maps
           \/ params[i].type = "continuous" /\ i > Len(vec)

\* categories[Math.max(0, Math.min(idx, categories.length - 1))]
CategoryAt(categories, x) ==
    IF ~IsNum(x) THEN Undefined
    ELSE LET idx == RoundInt(x)
             hi == Len(categories) - 1
             lo == IF idx < hi THEN idx ELSE hi
         IN categories[(IF lo > 0 THEN lo ELSE 0) + 1]

DisplayOne(p, i, maps, vec) ==
    IF p.type = "categorical" THEN CategoryAt(maps[Trim(p.name)], Coord(vec, i))
    ELSE IF p.type = "integer" THEN RoundToString(Coord(vec, i))
    ELSE ToFixed(vec[i])

\* displayParams: name -> text, the later parameter winning a shared name
DisplayParams(params, maps, vec) ==
    LET idxs == {i \in 1..Len(params) : Named(params[i])}
        names == {Trim(params[i].name) : i \in idxs}
        last(n) == CHOOSE i \in idxs :
                      /\ Trim(params[i].name) = n
                      /\ \A j \in idxs : Trim(params[j].name) = n => j <= i
    IN [n \in names |-> DisplayOne(params[last(n)], last(n), maps, vec)]

(***************************************************************************)
(* Inputs of the model                                                     *)
(***************************************************************************)
Directions == {"minimize", "maximize"}
ParamTypes == {"continuous", "categorical", "integer"}

\* the parameter lists the setup form is taken through
ParamLists ==
    { DefaultParameters,
      << DefaultParameters[1] >>,
      << DefaultParameters[2] >>,
      << [DefaultParameters[1] EXCEPT !.range = Range10to0] >>,
      << [DefaultParameters[1] EXCEPT !.range = RangeWords] >>,
      << [DefaultParameters[1] EXCEPT !.range = <<>>] >>,
      << [DefaultParameters[1] EXCEPT !.type = "integer"] >>,
      << [DefaultParameters[2] EXCEPT !.range = RangeA] >>,
      << [DefaultParameters[1] EXCEPT !.name = <<" ">>] >>,
      << DefaultParameters[1], BlankParameter >>,
      << DefaultParameters[1],
         [DefaultParameters[2] EXCEPT !.name = Temperature] >> }

TrialCounts == {2, 3, 11}

\* the setup forms the session is taken through: every list when
\* minimizing with three trials, the default list with the other settings
SetupForms ==
    {[parameters |-> l, direction |-> "minimize", trialCount |-> 3] :
        l \in ParamLists}
    \cup {[parameters |-> DefaultParameters, direction |-> d, trialCount |-> n] :
             d \in Directions, n \in TrialCounts}

\* the forms whose sessions are followed through trial navigation and
\* page reloads
DetourForms ==
    {[parameters |-> l, direction |-> "minimize", trialCount |-> 3] :
        l \in {DefaultParameters, << DefaultParameters[2] >>}}

\* the stored configs a page reload is followed from: those of the detour
\* forms, one whose range is not numeric, and one that maximizes
ReloadForms ==
    DetourForms
    \cup {[parameters |-> << [DefaultParameters[1] EXCEPT !.range = RangeWords] >>,
           direction |-> "minimize", trialCount |-> 3],
          [parameters |-> DefaultParameters, direction |-> "maximize",
           trialCount |-> 3]}

Explored(params, d, n) ==
    [parameters |-> params, direction |-> d, trialCount |-> n] \in SetupForms

NameInputs == {Temperature, <<" ">>}
RangeInputs == {Range0to10, Range10to0, RangeWords, <<>>, RangeABC, RangeA}
\* text typed into a parameter field and into an objective field
ParamInputs == {<<"1">>, <<"b">>}
ValueInputs == {<<"2">>, <<".">>}
PinnedInput == <<"1">>
\* the quick-navigation button pressed is that of the last trial
NavTargets == {trialCount - 1}

\* before the first navigation or reload
FirstVisit == navigations = 0 /\ reloads = 0

\* the fields of the first FreeTrials trials of a first visit take every
\* input, the other fields the pinned one
FreeTrial == FirstVisit /\ currentTrialIndex < FreeTrials
TrialParamInputs == IF FreeTrial THEN ParamInputs ELSE {PinnedInput}
TrialValueInputs == IF FreeTrial THEN ValueInputs ELSE {PinnedInput}

\* the iteration of the run that awaits its objective value, from 1
IterNo == currentIter - (totalIter - ExtraIters)
\* the suggestions of the first FreeIters iterations draw freely; the
\* objective of the last iteration takes every input
FreeIter(n) == n <= FreeIters
IterValueInputs == IF IterNo >= ExtraIters THEN ValueInputs ELSE {PinnedInput}

\* the draws of Math.random() behind one suggest(): the draw of candidate
\* i for coordinate d is ((i + d + s[d]) % RandDen) / RandDen, with every
\* shift s[d] for a free suggestion and s[d] = 0 for a pinned one
Streams(dim, free) ==
    {[i \in 1..NumCandidates |-> [d \in 1..dim |-> (i + d + s[d]) % RandDen]] :
        s \in [1..dim -> IF free THEN 0..(RandDen - 1) ELSE {0}]}

(***************************************************************************)
(* The session (HomePage)                                                  *)
(***************************************************************************)
\* a falsy text: '' or undefined
Falsy(s) == s = <<>> \/ s = Undefined

\* a history item is [params, value, alias]: alias = i > 0 when params is
\* the params object of manualTrials[i] (submitManualTrial stores the
\* object, not a copy), 0 when it is an object of its own
HistoryItem(params, value, alias) ==
    [params |-> params, value |-> value, alias |-> alias]

\* JSON.stringify drops the keys whose value is undefined
Stored(h) ==
    [i \in 1..Len(h) |->
        [params |-> [n \in {m \in DOMAIN h[i].params :
                              h[i].params[m] # Undefined} |-> h[i].params[n]],
         value |-> h[i].value]]

\* JSON.parse of the stored history
Loaded(sh) ==
    [i \in 1..Len(sh) |-> HistoryItem(sh[i].params, sh[i].value, 0)]

\* { parameters, direction, trialCount }
Config == [parameters |-> parameters, direction |-> direction,
           trialCount |-> trialCount]

\* the provider before any configure: no configuration, no observation
NewProvider == [config |-> Null, observations |-> <<>>]

\* the in-process page has no loading flag, calls no provider and has no
\* suspended handler
RemoteIdle == UNCHANGED <<isLoading, provider, flows, failures, suggested>>

Init ==
    /\ parameters = DefaultParameters
    /\ direction = "minimize"
    /\ results = Null
    /\ isOptimizing = FALSE
    /\ currentParams = NullParams
    /\ numericParams = NullVector
    /\ objectiveValue = <<>>
    /\ currentIter = 0
    /\ totalIter = 0
    /\ history = <<>>
    /\ error = ""
    /\ categoryMaps = <<>>
    /\ phase = "setup"
    /\ manualTrials = <<>>
    /\ currentTrialIndex = 0
    /\ trialCount = 3
    /\ savedConfig = Null
    /\ optimizer = Null
    /\ storage = Null
    /\ navigations = 0
    /\ reloads = 0
    /\ isLoading = FALSE
    /\ provider = NewProvider
    /\ flows = <<>>
    /\ failures = 0
    /\ suggested = FALSE

\* a page load: every useState starts again and the mount effect runs
\* loadFromStorage
Reload ==
    /\ reloads < MaxReloads
    /\ storage # Null
    /\ storage.config \in ReloadForms
    /\ Len(storage.history) <= MaxReloadHistory
    /\ reloads' = reloads + 1
    /\ parameters' = DefaultParameters
    /\ direction' = "minimize"
    /\ results' = Null
    /\ isOptimizing' = FALSE
    /\ currentParams' = NullParams
    /\ numericParams' = NullVector
    /\ objectiveValue' = <<>>
    /\ currentIter' = 0
    /\ totalIter' = 0
    /\ error' = ""
    /\ categoryMaps' = <<>>
    /\ manualTrials' = <<>>
    /\ currentTrialIndex' = 0
    /\ trialCount' = 3
    /\ optimizer' = Null
    /\ history' = Loaded(storage.history)
    /\ savedConfig' = storage.config
    /\ phase' = "setup"
    /\ UNCHANGED <<storage, navigations>>

\* clearStorage, from the resume banner
ClearStorage ==
    /\ savedConfig # Null /\ phase = "setup"
    /\ storage' = Null
    /\ history' = <<>>
    /\ savedConfig' = Null
    /\ UNCHANGED <<parameters, direction, results, isOptimizing, currentParams,
                   numericParams, objectiveValue, currentIter, totalIter,
                   error, categoryMaps, phase, manualTrials,
                   currentTrialIndex, trialCount, optimizer, navigations, reloads>>

SetupUnchanged ==
    UNCHANGED <<results, isOptimizing, currentParams, numericParams,
                objectiveValue, currentIter, totalIter, history, error,
                categoryMaps, phase, manualTrials, currentTrialIndex,
                savedConfig, optimizer, storage, navigations, reloads>>

\* onChange of a parameter's name input
SetParamName ==
    /\ phase = "setup" /\ FirstVisit
    /\ \E i \in 1..Len(parameters), s \in NameInputs :
          /\ Explored([parameters EXCEPT ![i].name = s], direction,
                      trialCount)
          /\ parameters' = [parameters EXCEPT ![i].name = s]
    /\ UNCHANGED <<direction, trialCount>>
    /\ SetupUnchanged

\* onChange of a parameter's type select
SetParamType ==
    /\ phase = "setup" /\ FirstVisit
    /\ \E i \in 1..Len(parameters), t \in ParamTypes :
          /\ Explored([parameters EXCEPT ![i].type = t], direction,
                      trialCount)
          /\ parameters' = [parameters EXCEPT ![i].type = t]
    /\ UNCHANGED <<direction, trialCount>>
    /\ SetupUnchanged

\* onChange of a parameter's range input
SetParamRange ==
    /\ phase = "setup" /\ FirstVisit
    /\ \E i \in 1..Len(parameters), s \in RangeInputs :
          /\ Explored([parameters EXCEPT ![i].range = s], direction,
                      trialCount)
          /\ parameters' = [parameters EXCEPT ![i].range = s]
    /\ UNCHANGED <<direction, trialCount>>
    /\ SetupUnchanged

\* the remove-parameter button, shown while there are several parameters
RemoveParam ==
    /\ phase = "setup" /\ FirstVisit
    /\ Len(parameters) > 1
    /\ \E i \in 1..Len(parameters) :
          LET new == [j \in 1..(Len(parameters) - 1) |->
                         IF j < i THEN parameters[j] ELSE parameters[j + 1]]
          IN Explored(new, direction, trialCount) /\ parameters' = new
    /\ UNCHANGED <<direction, trialCount>>
    /\ SetupUnchanged

\* the add-parameter button
AddParam ==
    /\ phase = "setup" /\ FirstVisit
    /\ Explored(Append(parameters, BlankParameter), direction, trialCount)
    /\ parameters' = Append(parameters, BlankParameter)
    /\ UNCHANGED <<direction, trialCount>>
    /\ SetupUnchanged

\* onChange of the trial count input
SetTrialCount ==
    /\ phase = "setup" /\ FirstVisit
    /\ \E n \in TrialCounts :
          Explored(parameters, direction, n) /\ trialCount' = n
    /\ UNCHANGED <<parameters, direction>>
    /\ SetupUnchanged

\* onChange of the direction select
SetDirection ==
    /\ phase = "setup" /\ FirstVisit
    /\ \E d \in Directions :
          Explored(parameters, d, trialCount) /\ direction' = d
    /\ UNCHANGED <<parameters, trialCount>>
    /\ SetupUnchanged

\* the empty params object of a trial: one '' per given parameter
BlankFields(params) ==
    [n \in {Trim(params[i].name) : i \in 1..Len(params)} |-> <<>>]

\* startManualInput
StartManualInput ==
    /\ phase = "setup"
    /\ LET validParameters == ValidParameters(parameters)
       IN IF Len(validParameters) = 0
          THEN /\ error' = "no valid parameter"
               /\ UNCHANGED <<manualTrials, phase, currentTrialIndex>>
          ELSE IF trialCount < MinTrials \/ trialCount > MaxTrials
          THEN /\ error' = "trial count"
               /\ UNCHANGED <<manualTrials, phase, currentTrialIndex>>
          ELSE /\ manualTrials' =
                     [i \in 1..trialCount |->
                         [params |-> BlankFields(validParameters),
                          value |-> <<>>]]
               /\ phase' = "manual"
               /\ currentTrialIndex' = 0
               /\ error' = ""
    /\ UNCHANGED <<parameters, direction, results, isOptimizing,
                   currentParams, numericParams, objectiveValue, currentIter,
                   totalIter, history, categoryMaps, trialCount, savedConfig,
                   optimizer, storage, navigations, reloads>>

\* the first parameter with this trimmed name (parameters.find)
FindParam(params, n) ==
    LET hits == {i \in 1..Len(params) : Trim(params[i].name) = n}
    IN IF hits = {} THEN Null
       ELSE params[CHOOSE i \in hits : \A j \in hits : i <= j]

\* the text handleManualParamChange keeps of what was typed
FilterParamInput(paramConfig, value) ==
    IF paramConfig = Null THEN value
    ELSE IF paramConfig.type = "integer" THEN Keep(value, DigitChars)
    ELSE IF paramConfig.type = "continuous"
         THEN Keep(value, DigitChars \cup {"."})
    ELSE value

ManualUnchanged ==
    UNCHANGED <<parameters, direction, results, isOptimizing, currentParams,
                numericParams, objectiveValue, currentIter, totalIter,
                categoryMaps, phase, trialCount, savedConfig, optimizer,
                storage>>

\* handleManualParamChange(currentTrialIndex, paramName, value): the write
\* goes to the trial's params object, which history items may share
HandleManualParamChange ==
    /\ phase = "manual"
    /\ \E paramName \in DOMAIN manualTrials[currentTrialIndex + 1].params,
          value \in TrialParamInputs :
          LET text == FilterParamInput(FindParam(parameters, paramName), value)
              k == currentTrialIndex + 1
          IN /\ manualTrials' =
                   [manualTrials EXCEPT ![k].params[paramName] = text]
             /\ history' =
                   [i \in 1..Len(history) |->
                       IF history[i].alias = k
                       THEN [history[i] EXCEPT !.params[paramName] = text]
                       ELSE history[i]]
    /\ UNCHANGED <<error, currentTrialIndex, navigations, reloads>>
    /\ ManualUnchanged

\* handleManualValueChange(currentTrialIndex, value)
HandleManualValueChange ==
    /\ phase = "manual"
    /\ \E value \in TrialValueInputs :
          manualTrials' =
              [manualTrials EXCEPT ![currentTrialIndex + 1].value =
                  Keep(value, DigitChars \cup {"."})]
    /\ UNCHANGED <<history, error, currentTrialIndex, navigations, reloads>>
    /\ ManualUnchanged

\* the current trial has nothing typed into it
BlankTrial ==
    LET currentTrial == manualTrials[currentTrialIndex + 1]
    IN /\ currentTrial.value = <<>>
       /\ \A n \in DOMAIN currentTrial.params : currentTrial.params[n] = <<>>

\* the previous-step button; the trial navigation is followed from blank
\* trials, before any reload
PreviousTrial ==
    /\ phase = "manual"
    /\ currentTrialIndex > 0
    /\ navigations < MaxNavigations /\ reloads = 0 /\ BlankTrial
    /\ Config \in DetourForms
    /\ navigations' = navigations + 1
    /\ currentTrialIndex' = currentTrialIndex - 1
    /\ UNCHANGED <<history, error, manualTrials, reloads>>
    /\ ManualUnchanged

\* a quick-navigation button
GotoTrial ==
    /\ phase = "manual"
    /\ trialCount > 1
    /\ navigations < MaxNavigations /\ reloads = 0 /\ BlankTrial
    /\ Config \in DetourForms
    /\ navigations' = navigations + 1
    /\ \E i \in NavTargets :
          i # currentTrialIndex /\ currentTrialIndex' = i
    /\ UNCHANGED <<history, error, manualTrials, reloads>>
    /\ ManualUnchanged

\* importHistoryData; its button shows on the first trial when there is
\* history (the import option defaults to 'continue')
ImportHistoryData ==
    /\ phase = "manual"
    /\ Len(history) > 0
    /\ currentTrialIndex = 0
    /\ LET n == IF trialCount < Len(history) THEN trialCount ELSE Len(history)
       IN manualTrials' =
              [i \in 1..trialCount |->
                  IF i <= n
                  THEN [params |-> history[i].params, value |-> history[i].value]
                  ELSE [params |-> BlankFields(NamedParameters(parameters)),
                        value |-> <<>>]]
    /\ history' = [i \in 1..Len(history) |-> [history[i] EXCEPT !.alias = 0]]
    /\ currentTrialIndex' = 0
    /\ error' = ""
    /\ UNCHANGED <<navigations, reloads>>
    /\ ManualUnchanged

\* a seeding whose engine always minimizes
SeedOptimizerMinimizing(params, maps, trials, maximize) ==
    [observations |->
        [i \in 1..Len(trials) |->
            [params |-> Encode(params, maps, trials[i].params),
             value |-> ParseFloat(trials[i].value)]],
     bounds |-> BuildBounds(params),
     maximize |-> FALSE]

\* the seed observations startOptimization adds: every manual trial, in
\* order, its value through parseFloat
SeedOptimizer(params, maps, trials, maximize) ==
    [observations |->
        [i \in 1..Len(trials) |->
            [params |-> Encode(params, maps, trials[i].params),
             value |-> ParseFloat(trials[i].value)]],
     bounds |-> BuildBounds(params),
     maximize |-> maximize]

\* fetchNextSuggest(bayesOpt, maps), with the parameters of the calling
\* render: the state it sets.  When the display loop throws, its catch sets
\* the error and clears isOptimizing; otherwise these keep what the caller
\* set (callerError, callerOptimizing)
FetchNextSuggest(bayesOpt, maps, params, rnd, callerError, callerOptimizing) ==
    \E nextParams \in {Suggest(bayesOpt, rnd)} :
       /\ numericParams' = nextParams
       /\ IF DisplayThrows(params, maps, nextParams)
          THEN /\ error' = "suggest error"
               /\ isOptimizing' = FALSE
               /\ UNCHANGED <<currentParams, objectiveValue>>
          ELSE /\ error' = callerError
               /\ isOptimizing' = callerOptimizing
               /\ currentParams' = DisplayParams(params, maps, nextParams)
               /\ objectiveValue' = <<>>

\* startOptimization, called by submitManualTrial after it has set the new
\* history and saved the manual record; history is still the old one here
StartOptimization(newHistory, manualRecord) ==
    IF FirstRangeError(parameters) # ""
    THEN /\ error' = FirstRangeError(parameters)
         /\ history' = newHistory
         /\ storage' = manualRecord
         /\ UNCHANGED <<isOptimizing, currentParams, numericParams,
                        objectiveValue, currentIter, totalIter, categoryMaps,
                        phase, optimizer>>
    ELSE LET localCategoryMaps == BuildCategoryMaps(parameters)
             bayesOpt == SeedOptimizer(parameters, localCategoryMaps,
                                       manualTrials, direction = "maximize")
         IN /\ history' = newHistory
            /\ categoryMaps' = localCategoryMaps
            /\ optimizer' = bayesOpt
            /\ phase' = "optimization"
            /\ currentIter' = Len(manualTrials) + 1
            /\ totalIter' = Len(manualTrials) + ExtraIters
            /\ storage' = [history |-> Stored(history),
                           phase |-> "optimization", config |-> Config]
            /\ \E rnd \in Streams(Len(bayesOpt.bounds), FreeIter(1)) :
                  FetchNextSuggest(bayesOpt, localCategoryMaps, parameters,
                                   rnd, "", TRUE)

\* submitManualTrial
SubmitManualTrial ==
    /\ phase = "manual"
    /\ Len(history) < MaxManualHistory
    /\ LET currentTrial == manualTrials[currentTrialIndex + 1]
           emptyParams == {n \in DOMAIN currentTrial.params :
                              Falsy(currentTrial.params[n])}
           newHistory == Append(history,
                             HistoryItem(currentTrial.params, currentTrial.value,
                                         currentTrialIndex + 1))
           manualRecord == [history |-> Stored(newHistory), phase |-> "manual",
                            config |-> Config]
       IN IF emptyParams # {}
          THEN /\ error' = "fill parameters"
               /\ UNCHANGED <<history, storage, currentTrialIndex,
                              isOptimizing, currentParams, numericParams,
                              objectiveValue, currentIter, totalIter,
                              categoryMaps, phase, optimizer>>
          ELSE IF Falsy(currentTrial.value) \/ IsNaN(ParseFloat(currentTrial.value))
          THEN /\ error' = "objective value"
               /\ UNCHANGED <<history, storage, currentTrialIndex,
                              isOptimizing, currentParams, numericParams,
                              objectiveValue, currentIter, totalIter,
                              categoryMaps, phase, optimizer>>
          ELSE IF currentTrialIndex < trialCount - 1
          THEN /\ history' = newHistory
               /\ storage' = manualRecord
               /\ currentTrialIndex' = currentTrialIndex + 1
               /\ error' = ""
               /\ UNCHANGED <<isOptimizing, currentParams, numericParams,
                              objectiveValue, currentIter, totalIter,
                              categoryMaps, phase, optimizer>>
          ELSE /\ StartOptimization(newHistory, manualRecord)
               /\ UNCHANGED currentTrialIndex
    /\ UNCHANGED <<parameters, direction, results, manualTrials, trialCount,
                   savedConfig, navigations, reloads>>

\* an optimization section that stays on the page when the run has ended
OptimizationShownAfterEnd ==
    phase = "optimization" /\ currentParams # NullParams

\* the optimization section with the suggestion, its objective input and
\* its register button is rendered
OptimizationShown ==
    phase = "optimization" /\ isOptimizing /\ currentParams # NullParams

\* onChange of the objective value input of the optimization section
SetObjectiveValue ==
    /\ OptimizationShown
    /\ \E value \in IterValueInputs :
          objectiveValue' = Keep(value, DigitChars \cup {"."})
    /\ UNCHANGED <<parameters, direction, results, isOptimizing,
                   currentParams, numericParams, currentIter, totalIter,
                   history, error, categoryMaps, phase, manualTrials,
                   currentTrialIndex, trialCount, savedConfig, optimizer,
                   storage, navigations, reloads>>

\* a registration that reaches the horizon counts one iteration too few
HorizonReachedEarly == currentIter + 1 >= totalIter

\* if (currentIter >= totalIter) of handleRegister
HorizonReached == currentIter >= totalIter

\* handleRegister
HandleRegister ==
    /\ OptimizationShown
    /\ IF Falsy(objectiveValue) \/ IsNaN(ParseFloat(objectiveValue))
       THEN /\ error' = "objective value"
            /\ UNCHANGED <<results, isOptimizing, currentParams,
                           numericParams, objectiveValue, currentIter,
                           history, savedConfig, optimizer, storage>>
       ELSE IF optimizer = Null \/ numericParams = NullVector
       THEN /\ error' = "optimizer not initialised"
            /\ UNCHANGED <<results, isOptimizing, currentParams,
                           numericParams, objectiveValue, currentIter,
                           history, savedConfig, optimizer, storage>>
       ELSE LET registered == AddObservation(optimizer, numericParams,
                                             ParseFloat(objectiveValue))
                newHistory == Append(history,
                                  HistoryItem(currentParams, objectiveValue, 0))
                record == [history |-> Stored(newHistory),
                           phase |-> "optimization", config |-> savedConfig]
            IN /\ optimizer' = registered
               /\ IF HorizonReached
                  THEN LET bestResult == GetBestResult(registered)
                       IN IF DisplayThrows(parameters, categoryMaps,
                                           bestResult.params)
                          THEN /\ error' = "register error"
                               /\ history' = newHistory
                               /\ storage' = record
                               /\ UNCHANGED <<results, isOptimizing,
                                              savedConfig>>
                          ELSE /\ results' =
                                     [params |-> DisplayParams(parameters,
                                                     categoryMaps,
                                                     bestResult.params),
                                      value |-> bestResult.value]
                               /\ isOptimizing' = FALSE
                               /\ storage' = Null
                               /\ history' = <<>>
                               /\ savedConfig' = Null
                               /\ UNCHANGED error
                       /\ UNCHANGED <<currentParams, numericParams,
                                      objectiveValue, currentIter>>
                  ELSE /\ history' = newHistory
                       /\ storage' = record
                       /\ currentIter' = currentIter + 1
                       /\ \E rnd \in Streams(Len(registered.bounds),
                                             FreeIter(IterNo + 1)) :
                             FetchNextSuggest(registered, categoryMaps,
                                              parameters, rnd, error,
                                              isOptimizing)
                       /\ UNCHANGED <<results, savedConfig>>
    /\ UNCHANGED <<parameters, direction, totalIter, categoryMaps, phase,
                   manualTrials, currentTrialIndex, trialCount, navigations, reloads>>

\* a replay that adds the history items last to first
ReplayOptimizerReversed(params, maps, items, maximize) ==
    [observations |->
        [i \in 1..Len(items) |->
            [params |-> Encode(params, maps, items[Len(items) + 1 - i].params),
             value |-> ParseFloat(items[Len(items) + 1 - i].value)]],
     bounds |-> BuildBounds(params),
     maximize |-> maximize]

\* the optimizer resumeOptimization builds: every history item, in order
ReplayOptimizer(params, maps, items, maximize) ==
    [observations |->
        [i \in 1..Len(items) |->
            [params |-> Encode(params, maps, items[i].params),
             value |-> ParseFloat(items[i].value)]],
     bounds |-> BuildBounds(params),
     maximize |-> maximize]

\* resumeOptimization, from the resume banner; fetchNextSuggest still sees
\* the parameters of the render the button belongs to
ResumeOptimization ==
    /\ savedConfig # Null /\ phase = "setup"
    /\ parameters' = savedConfig.parameters
    /\ direction' = savedConfig.direction
    /\ trialCount' = savedConfig.trialCount
    /\ phase' = "optimization"
    /\ currentIter' = Len(history) + 1
    /\ totalIter' = Len(history) + ExtraIters
    /\ LET localCategoryMaps == BuildCategoryMaps(savedConfig.parameters)
           bayesOpt == ReplayOptimizer(savedConfig.parameters,
                                       localCategoryMaps, history,
                                       savedConfig.direction = "maximize")
       IN /\ categoryMaps' = localCategoryMaps
          /\ optimizer' = bayesOpt
          /\ \E rnd \in Streams(Len(bayesOpt.bounds), FreeIter(1)) :
                FetchNextSuggest(bayesOpt, localCategoryMaps, parameters, rnd,
                                 error, TRUE)
    /\ UNCHANGED <<results, history, manualTrials, currentTrialIndex,
                   savedConfig, storage, navigations, reloads>>

Next ==
    \/ Reload /\ RemoteIdle
    \/ ClearStorage /\ RemoteIdle
    \/ SetParamName /\ RemoteIdle
    \/ SetParamType /\ RemoteIdle
    \/ SetParamRange /\ RemoteIdle
    \/ RemoveParam /\ RemoteIdle
    \/ AddParam /\ RemoteIdle
    \/ SetTrialCount /\ RemoteIdle
    \/ SetDirection /\ RemoteIdle
    \/ StartManualInput /\ RemoteIdle
    \/ HandleManualParamChange /\ RemoteIdle
    \/ HandleManualValueChange /\ RemoteIdle
    \/ PreviousTrial /\ RemoteIdle
    \/ GotoTrial /\ RemoteIdle
    \/ ImportHistoryData /\ RemoteIdle
    \/ SubmitManualTrial /\ RemoteIdle
    \/ SetObjectiveValue /\ RemoteIdle
    \/ HandleRegister /\ RemoteIdle
    \/ ResumeOptimization /\ RemoteIdle

Spec == Init /\ [][Next]_vars

(***************************************************************************)
(* Properties                                                              *)
(***************************************************************************)
\* a <= b of JavaScript: false when either side is NaN
Le(a, b) == Lt(a, b) \/ (~IsNaN(a) /\ a = b)

\* C1: the suggested vector has one coordinate per bounds row, each inside
\* the row's [min, max].  The engine's last suggestion is numericParams.
C1_SuggestInBounds ==
    (optimizer # Null /\ numericParams # NullVector) =>
        /\ Len(numericParams) = Len(optimizer.bounds)
        /\ \A i \in 1..Len(numericParams) :
              /\ Le(optimizer.bounds[i][1], numericParams[i])
              /\ Le(numericParams[i], optimizer.bounds[i][2])

\* C2: on a non-empty log getBestResult() returns an observation whose value
\* is the largest (maximize) or smallest (minimize) registered value, the
\* earliest one registered with that value.
C2_BestIsEarliestExtreme ==
    (optimizer # Null /\ optimizer.observations # <<>>) =>
        LET obs == optimizer.observations
            best == GetBestResult(optimizer)
        IN /\ \A j \in 1..Len(obs) :
                 IF optimizer.maximize THEN Le(obs[j].value, best.value)
                 ELSE Le(best.value, obs[j].value)
           /\ \E i \in 1..Len(obs) :
                 /\ best = obs[i]
                 /\ \A j \in 1..(i - 1) : obs[j].value # best.value

\* C3: getBestResult() of an engine with an empty log returns no result
\* value.
C3_EmptyLogFails ==
    (optimizer # Null /\ optimizer.observations = <<>>) =>
        "value" \notin DOMAIN GetBestResult(optimizer)

\* C4: a step from setup to manual is taken only with 3 <= N <= 10 and a
\* parameter that has a name and a range; a startManualInput without them
\* sets an error, stays in setup and creates no trials.
C4_StartManualInputGuard ==
    [][LET accepted ==
               /\ MinTrials <= trialCount /\ trialCount <= MaxTrials
               /\ \E i \in 1..Len(parameters) :
                     /\ Trim(parameters[i].name) # <<>>
                     /\ Trim(parameters[i].range) # <<>>
       IN /\ (phase = "setup" /\ phase' = "manual") => accepted
          /\ (phase = "setup" /\ ~accepted /\ StartManualInput) =>
                /\ error' \in {"no valid parameter", "trial count"}
                /\ phase' = "setup"
                /\ manualTrials' = manualTrials]_vars

\* startManualInput has rejected a trial count above the limit
C4_Rejected ==
    /\ phase = "setup" /\ error = "trial count"
    /\ trialCount = 11 /\ manualTrials = <<>>

\* parameter i of the list is well-formed: a name no other parameter has,
\* numeric bounds lo < hi, or two categories or more
WellFormed(params, i) ==
    /\ Trim(params[i].name) # <<>>
    /\ \A j \in 1..Len(params) :
          j # i => Trim(params[j].name) # Trim(params[i].name)
    /\ IF params[i].type = "categorical" THEN Len(Categories(params[i])) >= 2
       ELSE LET r == ParsedRange(params[i])
            IN Len(r) = 2 /\ Lt(r[1], r[2])

\* C5: in the manual and optimization phases every parameter of the list
\* is well-formed.
C5_WellFormedBeyondSetup ==
    phase \in {"manual", "optimization"} =>
        \A i \in 1..Len(parameters) : WellFormed(parameters, i)

\* an operation that ends in a validation error
ValidationFailure ==
    \/ /\ phase = "setup"
       /\ error' \in {"no valid parameter", "trial count"}
       /\ StartManualInput
    \/ /\ phase = "manual"
       /\ error' \in {"fill parameters", "objective value", "category count",
                      "invalid range"}
       /\ SubmitManualTrial
    \/ /\ OptimizationShown
       /\ Falsy(objectiveValue) \/ IsNaN(ParseFloat(objectiveValue))
       /\ HandleRegister

\* C6: an operation that ends in a validation error leaves the phase, the
\* trial index, the history, the iteration counter, the engine and the
\* persisted record as they were.
C6_ValidationErrorKeepsState ==
    [][ValidationFailure =>
          UNCHANGED <<phase, currentTrialIndex, history, currentIter,
                      optimizer, storage>>]_vars

\* every field of the trial is filled and its objective value is a number
TrialValid(trial) ==
    /\ \A n \in DOMAIN trial.params : ~Falsy(trial.params[n])
    /\ ~Falsy(trial.value) /\ ~IsNaN(ParseFloat(trial.value))

\* C7: the step from manual to optimization is taken with every one of the
\* N trials valid, no engine before it, and afterwards an engine whose log
\* is the encodings of trials 1..N in order.
C7_SeedsAreValidatedTrials ==
    [][(phase = "manual" /\ phase' = "optimization") =>
          /\ \A i \in 1..trialCount : TrialValid(manualTrials[i])
          /\ optimizer = Null
          /\ Len(optimizer'.observations) = trialCount
          /\ \A i \in 1..trialCount :
                optimizer'.observations[i] =
                    [params |-> Encode(parameters, BuildCategoryMaps(parameters),
                                       manualTrials[i].params),
                     value |-> ParseFloat(manualTrials[i].value)]]_vars

\* C8: in the optimization phase the horizon is the seed count plus 30.
C8_HorizonIsSeedCountPlus30 ==
    phase = "optimization" => totalIter = trialCount + ExtraIters

\* handleRegister is called with a numeric objective value
NumericRegister ==
    /\ OptimizationShown
    /\ ~Falsy(objectiveValue) /\ ~IsNaN(ParseFloat(objectiveValue))
    /\ HandleRegister

\* C9: a handleRegister with a numeric objective value appends the
\* observation (suggested vector, value) to the engine log; below the
\* horizon the counter grows by one and numericParams is a new suggestion
\* of the engine, at the horizon both stay.
C9_RegisterAppendsAndAdvances ==
    [][NumericRegister =>
          /\ optimizer'.observations =
                Append(optimizer.observations,
                       [params |-> numericParams,
                        value |-> ParseFloat(objectiveValue)])
          /\ IF currentIter < totalIter
             THEN /\ currentIter' = currentIter + 1
                  /\ \/ \E rnd \in Streams(Len(optimizer.bounds), FALSE) :
                           numericParams' = Suggest(optimizer', rnd)
                     \/ \E rnd \in Streams(Len(optimizer.bounds), TRUE) :
                           numericParams' = Suggest(optimizer', rnd)
             ELSE /\ currentIter' = currentIter
                  /\ numericParams' = numericParams]_vars

\* a first registration below the horizon has been made
C9_Registered ==
    /\ phase = "optimization" /\ isOptimizing
    /\ currentIter = trialCount + 2
    /\ optimizer # Null /\ Len(optimizer.observations) = trialCount + 1

\* C10: a registration with the counter at the horizon stores the decoded
\* getBestResult() of the whole log as the result, stops optimizing and
\* removes the persisted record; the result changes at no other step.
C10_FinalResultAtHorizon ==
    [][/\ (NumericRegister /\ currentIter = totalIter) =>
             LET best == GetBestResult(optimizer')
             IN /\ Len(optimizer'.observations) = Len(optimizer.observations) + 1
                /\ results' = [params |-> DisplayParams(parameters, categoryMaps,
                                                        best.params),
                               value |-> best.value]
                /\ ~isOptimizing'
                /\ storage' = Null
       /\ (results' # results /\ results' # Null) =>
             /\ phase = "optimization"
             /\ currentIter = totalIter]_vars

\* the run has ended with a result
C10_Completed ==
    /\ results # Null /\ ~isOptimizing /\ storage = Null
    /\ phase = "optimization" /\ currentIter = totalIter

\* C11: once the final result is set, the engine log takes no further
\* observation, no further suggestion is made and the result stays as it
\* is.
C11_CompletedIsTerminal ==
    [][results # Null =>
          /\ optimizer' = optimizer
          /\ numericParams' = numericParams
          /\ currentParams' = currentParams
          /\ results' = results]_vars

\* the run has ended after the 30 registrations that follow the seeds, and
\* the optimization section is gone
C11_Ended ==
    /\ results # Null /\ ~OptimizationShown
    /\ optimizer # Null /\ Len(optimizer.observations) = totalIter

\* C12: in the manual and optimization phases, and when the run has ended,
\* the reset (clearStorage) can be taken.
C12_ResetInEveryPhase ==
    (phase \in {"manual", "optimization"} \/ results # Null) =>
        ENABLED ClearStorage

\* the engine log after every item was added in order with addObservation
RECURSIVE Replayed(_, _, _, _, _)
Replayed(opt, params, maps, items, i) ==
    IF i > Len(items) THEN opt
    ELSE Replayed(AddObservation(opt, Encode(params, maps, items[i].params),
                                 ParseFloat(items[i].value)),
                  params, maps, items, i + 1)

\* C13: resumeOptimization, from setup with a persisted record, builds a
\* new engine whose log is the persisted history added in order with
\* addObservation, sets the counter to the history length plus one, moves
\* to the optimization phase and takes one suggestion from the new engine.
C13_ResumeReplaysHistory ==
    [][ResumeOptimization =>
          /\ phase = "setup" /\ storage # Null
          /\ optimizer' =
                Replayed(NewOptimizer(BuildBounds(storage.config.parameters),
                                      storage.config.direction = "maximize"),
                         storage.config.parameters,
                         BuildCategoryMaps(storage.config.parameters),
                         storage.history, 1)
          /\ Len(optimizer'.observations) = Len(storage.history)
          /\ currentIter' = Len(storage.history) + 1
          /\ phase' = "optimization"
          /\ \E rnd \in Streams(Len(optimizer'.bounds), TRUE) :
                numericParams' = Suggest(optimizer', rnd)]_vars

\* a run was resumed from a record of two trials with different values
C13_Resumed ==
    /\ reloads = 1 /\ phase = "optimization" /\ storage # Null
    /\ Len(storage.history) = 2
    /\ storage.history[1].value # storage.history[2].value
    /\ optimizer # Null /\ Len(optimizer.observations) = 2
    /\ optimizer.observations[1].value # optimizer.observations[2].value
    /\ currentIter = 3

\* C14: a persisted record holds the session's history, item for item.
C14_RecordHoldsHistory ==
    storage # Null => storage.history = Stored(history)

\* C15: a persisted record of a session in the manual or optimization
\* phase holds the session's parameters, direction and trial count as its
\* config.
C15_RecordHoldsConfig ==
    (storage # Null /\ phase \in {"manual", "optimization"}) =>
        storage.config = Config

\* a step that takes a suggestion from the engine
Suggested ==
    \/ ResumeOptimization
    \/ NumericRegister /\ currentIter < totalIter
    \/ phase = "manual" /\ phase' = "optimization"

\* every outcome of the Math.random() calls of one sampled vector
AllDraws(dim) == [1..dim -> 0..(RandDen - 1)]

\* resumeOptimization can be pressed and its engine will hold fewer than
\* three observations
ColdResume == savedConfig # Null /\ phase = "setup" /\ Len(history) < ColdStart

\* the vectors resumeOptimization can get from suggest() of its engine
ResumeSuggestions ==
    LET bayesOpt == ReplayOptimizer(savedConfig.parameters,
                                    BuildCategoryMaps(savedConfig.parameters),
                                    history, savedConfig.direction = "maximize")
    IN {Suggest(bayesOpt, rnd) : rnd \in Streams(Len(bayesOpt.bounds), FreeIter(1))}

\* the vectors of the bounds whose coordinates lie on the draw grid, the
\* upper bound included
GridVectors(bounds) ==
    {[i \in 1..Len(bounds) |->
         Num(bounds[i][1].v + (k[i] * (bounds[i][2].v - bounds[i][1].v)) \div RandDen)] :
        k \in [1..Len(bounds) -> 0..RandDen]}

EarliestBest(opt, rnd, v) ==
    LET scores == Scores(opt, rnd)
        score(c) == (CHOOSE s \in scores : s.candidate = c).acquisition
        drawn == {s.candidate : s \in scores}
        first(c) == CHOOSE i \in 1..NumCandidates :
                       /\ Candidate(opt.bounds, rnd[i]) = c
                       /\ \A j \in 1..(i - 1) : Candidate(opt.bounds, rnd[j]) # c
    IN /\ v \in drawn
       /\ \A c \in drawn :
             /\ IF opt.maximize THEN Le(score(c), score(v))
                ELSE Le(score(v), score(c))
             /\ (c # v /\ score(c) = score(v)) => first(v) < first(c)

\* C17: a suggestion from a log of 3 or more observations is one of the
\* 100 candidates drawn, with the best score among them, the earliest
\* generated of those with that score.
C17_ReturnsEarliestBestCandidate ==
    [][(Suggested /\ Len(optimizer'.observations) >= ColdStart) =>
          \/ \E rnd \in Streams(Len(optimizer'.bounds), FALSE) :
                EarliestBest(optimizer', rnd, numericParams')
          \/ \E rnd \in Streams(Len(optimizer'.bounds), TRUE) :
                EarliestBest(optimizer', rnd, numericParams')]_vars

\* mean + explore when maximizing, mean - explore when minimizing, in the
\* arithmetic of JavaScript numbers
MeanWithExplore(maximize, mean, explore) ==
    IF ~IsNum(mean) \/ ~IsNum(explore) THEN NaN
    ELSE Num(IF maximize THEN mean.v + explore.v ELSE mean.v - explore.v)

\* the vectors the engine can sample: one per outcome of the draws
Probes(opt) == {Candidate(opt.bounds, d) : d \in AllDraws(Len(opt.bounds))}

\* for each vector the engine can sample: its mean, its score and its
\* distances to the logged observations
ProbeTable(opt) ==
    [x \in Probes(opt) |->
        [mean |-> EstimateMean(opt, x),
         score |-> CalculateAcquisition(opt, x),
         distances |-> {CalculateDistance(x, opt.observations[i].params) :
                           i \in 1..Len(opt.observations)}]]

\* d is the distance to the nearest observation
IsNearest(distances, d) == d \in distances /\ \A e \in distances : Le(d, e)

\* C18: on a non-empty log the score of a vector is its mean plus
\* (maximize) or minus (minimize) its distance to the nearest logged
\* observation, and of two vectors with equal mean the one whose nearest
\* observation is farther has the better score for the direction.
C18_ScoreIsMeanAndNearest ==
    (optimizer # Null /\ optimizer.observations # <<>>) =>
        LET table == ProbeTable(optimizer)
        IN \A x \in DOMAIN table :
              /\ \E d \in table[x].distances :
                    /\ IsNearest(table[x].distances, d)
                    /\ table[x].score =
                          MeanWithExplore(optimizer.maximize, table[x].mean, d)
              /\ \A y \in DOMAIN table :
                    (/\ IsNum(table[x].mean) /\ table[y].mean = table[x].mean
                     /\ \E d \in table[x].distances, e \in table[y].distances :
                           /\ IsNearest(table[x].distances, d)
                           /\ IsNearest(table[y].distances, e)
                           /\ Lt(e, d))
                    => Better(optimizer.maximize, table[x].score, table[y].score)

\* C19: at the vector of a logged observation the exploration is 0 and the
\* mean lies between two logged values (the smallest and the largest); with
\* a single observation the mean is its value.
C19_AtLoggedPoint ==
    (optimizer # Null /\ optimizer.observations # <<>>) =>
        LET obs == optimizer.observations
        IN \A i \in 1..Len(obs) :
              LET mean == EstimateMean(optimizer, obs[i].params)
              IN /\ CalculateExploration(optimizer, obs[i].params) = Num(0)
                 /\ \E j \in 1..Len(obs), k \in 1..Len(obs) :
                       Le(obs[j].value, mean) /\ Le(mean, obs[k].value)
                 /\ Len(obs) = 1 => mean = obs[1].value

\* the engine as it was after its first k addObservation calls
Prefix(opt, k) == [opt EXCEPT !.observations = SubSeq(@, 1, k)]

\* C20: over the addObservation calls that built the log, the value of
\* getBestResult() after a call is never below (maximize) or above
\* (minimize) the value after the call before.
C20_RunningBestIsMonotonic ==
    optimizer # Null =>
        \A k \in 1..(Len(optimizer.observations) - 1) :
            LET before == GetBestResult(Prefix(optimizer, k)).value
                after == GetBestResult(Prefix(optimizer, k + 1)).value
            IN IF optimizer.maximize THEN ~Lt(after, before)
               ELSE ~Gt(after, before)

\* a maximizing engine has taken a value below its best one, and a
\* registration after its seeds
C20_LowerValueAdded ==
    /\ optimizer # Null /\ optimizer.maximize
    /\ Len(optimizer.observations) > trialCount
    /\ \E k \in 2..Len(optimizer.observations) :
          Lt(optimizer.observations[k].value,
             GetBestResult(Prefix(optimizer, k - 1)).value)

\* C21: a step that changes the log of the engine in use adds exactly one
\* observation at its end and keeps every earlier entry in its place,
\* also when the new vector is already in the log; a registration is such
\* a step.
C21_LogIsAppendOnly ==
    [][/\ (optimizer # Null /\ optimizer' # Null /\ optimizer' # optimizer) =>
             /\ Len(optimizer'.observations) = Len(optimizer.observations) + 1
             /\ SubSeq(optimizer'.observations, 1, Len(optimizer.observations))
                   = optimizer.observations
             /\ optimizer'.bounds = optimizer.bounds
             /\ optimizer'.maximize = optimizer.maximize
       /\ NumericRegister =>
             /\ Len(optimizer'.observations) = Len(optimizer.observations) + 1
             /\ optimizer'.observations[Len(optimizer'.observations)] =
                   [params |-> numericParams,
                    value |-> ParseFloat(objectiveValue)]]_vars

\* the observation registered last has the vector of an earlier one
C21_DuplicateVectorLogged ==
    /\ optimizer # Null /\ Len(optimizer.observations) > trialCount
    /\ phase = "optimization" /\ reloads = 0
    /\ \E i \in 1..(Len(optimizer.observations) - 1) :
          optimizer.observations[i].params =
              optimizer.observations[Len(optimizer.observations)].params

\* the coordinate of a categorical value: the index of a known label; for
\* another text its numeric parse when it is numeric, and 0 otherwise
LabelOrParse(p, text) ==
    LET index == IndexOf(Categories(p), text)
    IN IF index # -1 THEN Num(index * Unit)
       ELSE IF IsNum(ParseFloat(text)) THEN ParseFloat(text)
       ELSE Num(0)

\* C22: the seed observations of the step into the optimization phase
\* encode every categorical value as the index of its label, or for a text
\* that is no label as its numeric parse, or 0 when it is not numeric.
C22_UnknownCategoryFallsBack ==
    [][(phase = "manual" /\ phase' = "optimization") =>
          LET named == NamedParameters(parameters)
          IN /\ Len(optimizer'.observations) = Len(manualTrials)
             /\ \A i \in 1..Len(manualTrials), j \in 1..Len(named) :
                   named[j].type = "categorical" =>
                       optimizer'.observations[i].params[j] =
                           LabelOrParse(named[j],
                                        Field(manualTrials[i].params,
                                              Trim(named[j].name)))]_vars

\* the label at index clamp(round(v), 0, len - 1)
ClampedLabel(categories, v) ==
    LET idx == RoundInt(v)
        top == Len(categories) - 1
    IN categories[(IF idx < 0 THEN 0 ELSE IF idx > top THEN top ELSE idx) + 1]

\* C23: the suggestion shown decodes every categorical coordinate to the
\* label at the clamped rounded index, which is one of the parameter's
\* labels, and every integer coordinate to its rounded value; the seed
\* observations encode a known label as its index.
C23_DecodeAndEncode ==
    [][/\ (Suggested /\ error' # "suggest error") =>
             LET named == NamedParameters(parameters')
             IN \A j \in 1..Len(named) :
                   LET shown == Field(currentParams', Trim(named[j].name))
                       v == Coord(numericParams', j)
                   IN /\ named[j].type = "categorical" =>
                            /\ IsNum(v)
                            /\ shown = ClampedLabel(Categories(named[j]), v)
                      /\ named[j].type = "integer" =>
                            IsNum(v) /\ shown = RoundToString(v)
       /\ (phase = "manual" /\ phase' = "optimization") =>
             LET named == NamedParameters(parameters)
             IN \A i \in 1..Len(manualTrials), j \in 1..Len(named) :
                   LET text == Field(manualTrials[i].params, Trim(named[j].name))
                   IN (/\ named[j].type = "categorical"
                       /\ IndexOf(Categories(named[j]), text) # -1) =>
                          optimizer'.observations[i].params[j] =
                              Num(IndexOf(Categories(named[j]), text) * Unit)]_vars

\* C24: while a suggestion is shown, encoding what is shown gives back
\* every integer-valued in-bounds coordinate of an integer or categorical
\* parameter.
C24_EncodeOfDecode ==
    (OptimizationShown /\ optimizer # Null /\ numericParams # NullVector) =>
        LET named == NamedParameters(parameters)
            encoded == Encode(parameters, BuildCategoryMaps(parameters),
                              currentParams)
        IN \A j \in 1..Len(named) :
              (/\ named[j].type \in {"integer", "categorical"}
               /\ j <= Len(numericParams) /\ j <= Len(optimizer.bounds)
               /\ IsNum(numericParams[j]) /\ numericParams[j].v % Unit = 0
               /\ Le(optimizer.bounds[j][1], numericParams[j])
               /\ Le(numericParams[j], optimizer.bounds[j][2]))
              => encoded[j] = numericParams[j]

\* C26: outside setup the direction never changes, and in the optimization
\* phase it is the maximize flag the engine was constructed with.
C26_DirectionFixed ==
    [][/\ (phase # "setup" /\ phase' # "setup") => direction' = direction
       /\ (phase' = "optimization" /\ optimizer' # Null) =>
             optimizer'.maximize = (direction' = "maximize")
       /\ (optimizer # Null /\ optimizer' # Null) =>
             optimizer'.maximize = optimizer.maximize]_vars

\* a resumed session that maximizes, with an observation registered
C26_MaximizingResumed ==
    /\ phase = "optimization" /\ reloads > 0 /\ direction = "maximize"
    /\ optimizer # Null /\ optimizer.maximize
    /\ Len(optimizer.observations) > Len(savedConfig.parameters)

\* C27: in the optimization phase the engine log holds the observations in
\* the order they were issued, the seeds in submission order and then the
\* registrations, and the session history lists the same observations in
\* the same order.
C27_LogAndHistoryInOrder ==
    (phase = "optimization" /\ optimizer # Null /\ results = Null) =>
        /\ Len(history) = Len(optimizer.observations)
        /\ \A i \in 1..Len(history) :
              i <= Len(optimizer.observations) =>
                 /\ optimizer.observations[i].value = ParseFloat(history[i].value)
                 /\ optimizer.observations[i].params =
                       Encode(parameters, categoryMaps, history[i].params)

\* C28: an edit of a trial field changes neither the parameters nor the
\* value of any history entry recorded before it.
C28_RecordedEntryImmutable ==
    [][(HandleManualParamChange \/ HandleManualValueChange) =>
          /\ Len(history') = Len(history)
          /\ \A i \in 1..Len(history) :
                /\ history'[i].params = history[i].params
                /\ history'[i].value = history[i].value]_vars

(***************************************************************************)
(* The remote-provider page (the first module of page.tsx, lines 1-800).   *)
(* Its handlers startOptimization, handleRegister and resumeOptimization    *)
(* are async: each await of a fetch suspends the handler, its setState     *)
(* calls so far take effect, and the handler goes on later with the state  *)
(* of the render it was created in.  A suspended handler is a flow: the    *)
(* call it waits for (pc) and the state it closed over.  startManualInput, *)
(* handleManualParamChange and handleManualValueChange are the same code   *)
(* as in the in-process page.  A params object of the provider is the      *)
(* vector of its values in param_names order.  suggested records that the  *)
(* suggestion in numericParams was returned by suggest and has not been    *)
(* registered since.                                                       *)
(***************************************************************************)
\* a value sent to the provider as the raw text of the field
Raw == [k |-> "raw", v |-> 0]

RECURSIVE DropZeros(_)
DropZeros(s) ==
    IF s # <<>> /\ s[Len(s)] = "0" THEN DropZeros(SubSeq(s, 1, Len(s) - 1))
    ELSE s

\* the text JSON.stringify gives a number
JsonNumber(a) ==
    IF ~IsNum(a) THEN <<"n", "u", "l", "l">>
    ELSE LET digits == DropZeros(ToFixed(a))
         IN IF digits[Len(digits)] = "." THEN SubSeq(digits, 1, Len(digits) - 1)
            ELSE digits

\* configData of startOptimization (discrete_params and the two names of
\* the objective are left out)
ConfigData ==
    [param_names |-> [i \in 1..Len(NamedParameters(parameters)) |->
                         Trim(NamedParameters(parameters)[i].name)],
     bounds |-> BuildBounds(parameters),
     init_points |-> 1,
     max_iter |-> ExtraIters,
     maximize |-> direction = "maximize"]

\* numericParams of one seed trial in startOptimization: the index of a
\* known label, the number a numeric text parses to, the text otherwise
RemoteEncodeOne(maps, values, name) ==
    LET text == Field(values, name)
        index == IF name \in DOMAIN maps THEN IndexOf(maps[name], text) ELSE -1
    IN IF index # -1 THEN Num(index * Unit)
       ELSE IF IsNaN(ParseFloat(text)) THEN Raw
       ELSE ParseFloat(text)

RemoteEncode(names, maps, values) ==
    [j \in 1..Len(names) |-> RemoteEncodeOne(maps, values, names[j])]

\* displayParams of fetchNextSuggest: maps[name][Math.round(params[name])]
\* for the mapped names, the number itself for the others
RemoteDisplayOne(maps, name, x) ==
    IF name \in DOMAIN maps
    THEN IF IsNum(x) /\ RoundInt(x) \in 0..(Len(maps[name]) - 1)
         THEN maps[name][RoundInt(x) + 1]
         ELSE Undefined
    ELSE JsonNumber(x)

RemoteDisplay(names, maps, params) ==
    [n \in {names[j] : j \in 1..Len(names)} |->
        RemoteDisplayOne(maps, n,
                         Coord(params, CHOOSE j \in 1..Len(names) : names[j] = n))]

\* configure of the provider: a new optimizer with an empty log
ProviderConfigure(configData) ==
    [config |-> configData, observations |-> <<>>]

\* register of the provider: the observation is added at the end
ProviderRegister(p, params, value) ==
    [p EXCEPT !.observations = Append(@, [params |-> params, value |-> value])]

\* suggest of the provider: a vector inside the configured bounds
ProviderSuggestions(p, free) ==
    LET bounds == p.config.bounds
    IN {[j \in 1..Len(bounds) |-> bounds[j][c[j]]] :
           c \in [1..Len(bounds) -> IF free THEN {1, 2} ELSE {1}]}

\* best_result of the provider: the earliest observation with the best
\* value for the configured direction
ProviderBestResult(p) ==
    LET obs == p.observations
        beaten(i) == \E j \in 1..Len(obs) :
                        IF p.config.maximize THEN Gt(obs[j].value, obs[i].value)
                        ELSE Lt(obs[j].value, obs[i].value)
    IN obs[CHOOSE i \in 1..Len(obs) :
              ~beaten(i) /\ \A j \in 1..(i - 1) : beaten(j)]

\* how a call ends: the response is fine, fetch rejects (no connection),
\* the response has an error status, or its body says success: false
Failed == IF failures < MaxFailures THEN {"rejected", "status", "refused"} ELSE {}
ConfigureOutcomes(configData) ==
    (IF configData = Null THEN {"status"} ELSE {"ok"}) \cup Failed
RegisterOutcomes ==
    (IF provider.config = Null THEN {"status"} ELSE {"ok"}) \cup Failed
SuggestOutcomes ==
    (IF provider.config = Null THEN {"status"} ELSE {"ok"})
    \cup (Failed \ {"refused"})
BestResultOutcomes ==
    (IF provider.config = Null \/ provider.observations = <<>>
     THEN {"status"} ELSE {"ok"})
    \cup (Failed \ {"refused"})
Counted(outcome) ==
    failures' = IF outcome # "ok" /\ failures < MaxFailures THEN failures + 1
                ELSE failures

\* a handler suspended on its first fetch, with the state of its render
Flow(kind, pc, maps, configData) ==
    [kind |-> kind, pc |-> pc, i |-> 1, manualTrials |-> manualTrials,
     history |-> history, currentIter |-> currentIter,
     totalIter |-> totalIter, categoryMaps |-> maps,
     savedConfig |-> savedConfig, currentParams |-> currentParams,
     numericParams |-> numericParams, objectiveValue |-> objectiveValue,
     parameters |-> parameters, direction |-> direction,
     trialCount |-> trialCount, configData |-> configData]

Suspended(f) == Len(flows) < MaxFlows /\ flows' = Append(flows, f)
Goes(k, f) == flows' = [flows EXCEPT ![k] = f]
Ends(k) == flows' = SubSeq(flows, 1, k - 1) \o SubSeq(flows, k + 1, Len(flows))

\* startManualInput and the two field handlers; the fields are edited
\* while no handler is suspended
RemoteStartManualInput ==
    /\ flows = <<>> /\ StartManualInput /\ RemoteIdle
RemoteHandleManualParamChange ==
    /\ flows = <<>> /\ HandleManualParamChange /\ RemoteIdle
RemoteHandleManualValueChange ==
    /\ flows = <<>> /\ HandleManualValueChange /\ RemoteIdle

\* submitManualTrial, and on the last trial startOptimization up to its
\* await of configure.  The submit button is not disabled while loading.
RemoteSubmitManualTrial ==
    /\ phase = "manual"
    /\ Len(history) < MaxManualHistory
    /\ LET currentTrial == manualTrials[currentTrialIndex + 1]
           emptyParams == {n \in DOMAIN currentTrial.params :
                              Falsy(currentTrial.params[n])}
           newHistory == Append(history,
                             HistoryItem(currentTrial.params, currentTrial.value,
                                         currentTrialIndex + 1))
           manualRecord == [history |-> Stored(newHistory), phase |-> "manual",
                            config |-> [parameters |-> parameters,
                                        direction |-> direction,
                                        trialCount |-> trialCount,
                                        configData |-> Null]]
       IN IF emptyParams # {}
          THEN /\ error' = "fill parameters"
               /\ UNCHANGED <<history, storage, currentTrialIndex,
                              categoryMaps, isLoading, flows>>
          ELSE IF Falsy(currentTrial.value) \/ IsNaN(ParseFloat(currentTrial.value))
          THEN /\ error' = "objective value"
               /\ UNCHANGED <<history, storage, currentTrialIndex,
                              categoryMaps, isLoading, flows>>
          ELSE /\ history' = newHistory
               /\ storage' = manualRecord
               /\ IF currentTrialIndex < trialCount - 1
                  THEN /\ currentTrialIndex' = currentTrialIndex + 1
                       /\ error' = ""
                       /\ UNCHANGED <<categoryMaps, isLoading, flows>>
                  ELSE IF FirstRangeError(parameters) # ""
                  THEN /\ error' = FirstRangeError(parameters)
                       /\ UNCHANGED <<currentTrialIndex, categoryMaps,
                                      isLoading, flows>>
                  ELSE LET localCategoryMaps == BuildCategoryMaps(parameters)
                       IN /\ error' = ""
                          /\ categoryMaps' = localCategoryMaps
                          /\ isLoading' = TRUE
                          /\ Suspended(Flow("start", "configure",
                                            localCategoryMaps, ConfigData))
                          /\ UNCHANGED currentTrialIndex
    /\ UNCHANGED <<parameters, direction, results, isOptimizing, currentParams,
                   numericParams, objectiveValue, currentIter, totalIter,
                   phase, manualTrials, trialCount, savedConfig, optimizer,
                   navigations, reloads, provider, failures, suggested>>

\* onChange of the objective value input of the optimization section
RemoteSetObjectiveValue ==
    /\ flows = <<>> /\ SetObjectiveValue /\ RemoteIdle

\* handleRegister up to its await of register; the button is disabled
\* while loading
RemoteHandleRegister ==
    /\ OptimizationShown /\ ~isLoading
    /\ IF Falsy(objectiveValue) \/ IsNaN(ParseFloat(objectiveValue))
       THEN /\ error' = "objective value"
            /\ UNCHANGED <<isLoading, flows>>
       ELSE /\ isLoading' = TRUE
            /\ Suspended(Flow("register", "register", categoryMaps, Null))
            /\ UNCHANGED error
    /\ UNCHANGED <<parameters, direction, results, isOptimizing, currentParams,
                   numericParams, objectiveValue, currentIter, totalIter,
                   history, categoryMaps, phase, manualTrials,
                   currentTrialIndex, trialCount, savedConfig, optimizer,
                   storage, navigations, reloads, provider, failures,
                   suggested>>

\* resumeOptimization, from the resume banner, up to its await of configure
RemoteResumeOptimization ==
    /\ savedConfig # Null /\ phase = "setup"
    /\ parameters' = savedConfig.parameters
    /\ direction' = savedConfig.direction
    /\ trialCount' = savedConfig.trialCount
    /\ phase' = "optimization"
    /\ isOptimizing' = TRUE
    /\ currentIter' = Len(history) + 1
    /\ totalIter' = Len(history) + ExtraIters
    /\ isLoading' = TRUE
    /\ Suspended(Flow("resume", "configure", categoryMaps,
                      savedConfig.configData))
    /\ UNCHANGED <<results, currentParams, numericParams, objectiveValue,
                   history, error, categoryMaps, manualTrials,
                   currentTrialIndex, savedConfig, optimizer, storage,
                   navigations, reloads, provider, failures, suggested>>

\* fetchNextSuggest up to its await of suggest
AwaitSuggest(k, f) ==
    /\ isLoading' = TRUE
    /\ Goes(k, [f EXCEPT !.pc = "suggest"])

\* the response to configure reaches startOptimization or
\* resumeOptimization, which runs to its next await or to its end
ConfigureReturns ==
    \E k \in 1..Len(flows) :
       LET f == flows[k]
       IN /\ f.pc = "configure"
          /\ \E outcome \in ConfigureOutcomes(f.configData) :
                /\ Counted(outcome)
                /\ provider' = IF outcome = "ok"
                               THEN ProviderConfigure(f.configData)
                               ELSE provider
                /\ IF f.kind = "start"
                   THEN IF outcome = "ok"
                        THEN /\ Goes(k, [f EXCEPT !.pc = "register"])
                             /\ UNCHANGED <<error, isLoading>>
                        ELSE /\ error' = IF outcome = "refused"
                                         THEN "configure failed"
                                         ELSE "config error"
                             /\ isLoading' = FALSE
                             /\ Ends(k)
                   ELSE IF outcome \in {"ok", "refused"}
                        THEN AwaitSuggest(k, f) /\ UNCHANGED error
                        ELSE /\ error' = IF outcome = "rejected"
                                         THEN "resume error" ELSE error
                             /\ isLoading' = FALSE
                             /\ Ends(k)
          /\ UNCHANGED <<parameters, direction, results, isOptimizing,
                         currentParams, numericParams, objectiveValue,
                         currentIter, totalIter, history, categoryMaps, phase,
                         manualTrials, currentTrialIndex, trialCount,
                         savedConfig, optimizer, storage, navigations, reloads,
                         suggested>>

\* the response to a register of startOptimization (seed f.i) or of
\* handleRegister
RegisterReturnsOf(k) ==
       LET f == flows[k]
       IN /\ f.pc = "register"
          /\ \E outcome \in RegisterOutcomes :
                /\ Counted(outcome)
                /\ IF outcome # "ok"
                   THEN /\ error' = IF f.kind = "start" THEN "config error"
                                    ELSE IF outcome = "refused"
                                    THEN "register failed"
                                    ELSE "register error"
                        /\ isLoading' = FALSE
                        /\ Ends(k)
                        /\ UNCHANGED <<provider, isOptimizing, phase,
                                       currentIter, totalIter, history,
                                       storage, suggested>>
                   ELSE IF f.kind = "start"
                   THEN LET trial == f.manualTrials[f.i]
                        IN /\ provider' =
                                ProviderRegister(provider,
                                    RemoteEncode(f.configData.param_names,
                                                 f.categoryMaps, trial.params),
                                    ParseFloat(trial.value))
                           /\ IF f.i < Len(f.manualTrials)
                              THEN /\ Goes(k, [f EXCEPT !.i = f.i + 1])
                                   /\ UNCHANGED <<error, isLoading,
                                                  isOptimizing, phase,
                                                  currentIter, totalIter,
                                                  storage>>
                              ELSE /\ isOptimizing' = TRUE
                                   /\ phase' = "optimization"
                                   /\ currentIter' = Len(f.manualTrials) + 1
                                   /\ totalIter' = Len(f.manualTrials) + ExtraIters
                                   /\ storage' =
                                        [history |-> Stored(f.history),
                                         phase |-> "optimization",
                                         config |->
                                            [parameters |-> f.parameters,
                                             direction |-> f.direction,
                                             trialCount |-> f.trialCount,
                                             configData |-> f.configData]]
                                   /\ AwaitSuggest(k, f)
                                   /\ UNCHANGED error
                           /\ UNCHANGED <<history, suggested>>
                   ELSE LET newHistory ==
                               Append(f.history,
                                      HistoryItem(f.currentParams,
                                                  f.objectiveValue, 0))
                        IN /\ provider' =
                                ProviderRegister(provider, f.numericParams,
                                                 ParseFloat(f.objectiveValue))
                           /\ history' = newHistory
                           /\ storage' = [history |-> Stored(newHistory),
                                          phase |-> "optimization",
                                          config |-> f.savedConfig]
                           /\ IF f.currentIter >= f.totalIter
                              THEN /\ Goes(k, [f EXCEPT !.pc = "best_result"])
                                   /\ UNCHANGED <<currentIter, isLoading>>
                              ELSE /\ currentIter' = f.currentIter + 1
                                   /\ AwaitSuggest(k, f)
                           /\ suggested' = FALSE
                           /\ UNCHANGED <<error, isOptimizing, phase, totalIter>>
          /\ UNCHANGED <<parameters, direction, results, currentParams,
                         numericParams, objectiveValue, categoryMaps,
                         manualTrials, currentTrialIndex, trialCount,
                         savedConfig, optimizer, navigations, reloads>>

RegisterReturns == \E k \in 1..Len(flows) : RegisterReturnsOf(k)

\* the suggestions of the first FreeIters iterations of a run are any
\* corner of the bounds, the later ones the lower corner
RemoteFree == FreeIter(currentIter - (totalIter - ExtraIters))

\* the response to suggest reaches fetchNextSuggest, and its caller ends
SuggestReturns ==
    \E k \in 1..Len(flows) :
       LET f == flows[k]
       IN /\ f.pc = "suggest"
          /\ \E outcome \in SuggestOutcomes :
                /\ Counted(outcome)
                /\ IF outcome # "ok"
                   THEN /\ error' = "suggest error"
                        /\ isOptimizing' = FALSE
                        /\ UNCHANGED <<numericParams, currentParams,
                                       objectiveValue, suggested>>
                   ELSE \E params \in ProviderSuggestions(provider, RemoteFree) :
                           /\ numericParams' = params
                           /\ suggested' = TRUE
                           /\ currentParams' =
                                 RemoteDisplay(provider.config.param_names,
                                               f.categoryMaps, params)
                           /\ objectiveValue' = <<>>
                           /\ UNCHANGED <<error, isOptimizing>>
                /\ isLoading' = FALSE
                /\ Ends(k)
          /\ UNCHANGED <<parameters, direction, results, currentIter,
                         totalIter, history, categoryMaps, phase, manualTrials,
                         currentTrialIndex, trialCount, savedConfig, optimizer,
                         storage, navigations, reloads, provider>>

\* the response to best_result reaches handleRegister, which ends
BestResultReturns ==
    \E k \in 1..Len(flows) :
       LET f == flows[k]
       IN /\ f.pc = "best_result"
          /\ \E outcome \in BestResultOutcomes :
                /\ Counted(outcome)
                /\ IF outcome # "ok"
                   THEN /\ error' = "register error"
                        /\ UNCHANGED <<results, isOptimizing, history,
                                       savedConfig, storage>>
                   ELSE LET bestJson == ProviderBestResult(provider)
                        IN /\ results' =
                                 [params |-> RemoteDisplay(
                                                 provider.config.param_names,
                                                 f.categoryMaps, bestJson.params),
                                  value |-> bestJson.value]
                           /\ isOptimizing' = FALSE
                           /\ storage' = Null
                           /\ history' = <<>>
                           /\ savedConfig' = Null
                           /\ UNCHANGED error
                /\ isLoading' = FALSE
                /\ Ends(k)
          /\ UNCHANGED <<parameters, direction, currentParams, numericParams,
                         objectiveValue, currentIter, totalIter, categoryMaps,
                         phase, manualTrials, currentTrialIndex, trialCount,
                         optimizer, navigations, reloads, provider, suggested>>

\* a page load of the remote page: every useState starts again, the
\* suspended handlers are gone, the provider is as it was
RemoteReload ==
    /\ reloads < MaxReloads
    /\ storage # Null
    /\ Len(storage.history) <= MaxReloadHistory
    /\ reloads' = reloads + 1
    /\ parameters' = DefaultParameters
    /\ direction' = "minimize"
    /\ results' = Null
    /\ isOptimizing' = FALSE
    /\ currentParams' = NullParams
    /\ numericParams' = NullVector
    /\ objectiveValue' = <<>>
    /\ currentIter' = 0
    /\ totalIter' = 0
    /\ error' = ""
    /\ categoryMaps' = <<>>
    /\ manualTrials' = <<>>
    /\ currentTrialIndex' = 0
    /\ trialCount' = 3
    /\ history' = Loaded(storage.history)
    /\ savedConfig' = storage.config
    /\ phase' = "setup"
    /\ isLoading' = FALSE
    /\ flows' = <<>>
    /\ suggested' = FALSE
    /\ UNCHANGED <<optimizer, storage, navigations, provider, failures>>

RemoteNext ==
    \/ RemoteReload
    \/ RemoteStartManualInput
    \/ RemoteHandleManualParamChange
    \/ RemoteHandleManualValueChange
    \/ RemoteSubmitManualTrial
    \/ RemoteSetObjectiveValue
    \/ RemoteHandleRegister
    \/ RemoteResumeOptimization
    \/ ConfigureReturns
    \/ RegisterReturns
    \/ SuggestReturns
    \/ BestResultReturns

RemoteSpec == Init /\ [][RemoteNext]_vars

\* a call of the provider failed in this step
CallFailed == failures' # failures

\* C25: a failed configure, register, suggest or best_result call leaves
\* the phase, the optimizing flag, the history, the iteration counter and
\* the current suggestion as they were, an error is shown, and the handler
\* ends without issuing the call again.
C25_FailedCallKeepsSession ==
    [][CallFailed =>
          /\ phase' = phase /\ isOptimizing' = isOptimizing
          /\ history' = history /\ currentIter' = currentIter
          /\ currentParams' = currentParams /\ numericParams' = numericParams
          /\ error' # ""
          /\ Len(flows') = Len(flows) - 1]_vars

\* C29: at most one startOptimization, handleRegister or resumeOptimization
\* flow is suspended on a remote call at a time.
C29_OneFlowAtATime == Len(flows) <= 1

\* C30: when the suggest call of resumeOptimization is answered, the
\* provider holds every persisted history entry, registered in order.
C30_ResumeRegistersHistory ==
    [][(SuggestReturns /\ flows[1].kind = "resume" /\ provider.config # Null) =>
          /\ Len(provider.observations) = Len(history)
          /\ \A i \in 1..Len(history) :
                i <= Len(provider.observations) =>
                   provider.observations[i].value = ParseFloat(history[i].value)]_vars

\* a second engine with the same bounds and direction, given the same log
\* observation by observation
RECURSIVE RebuiltFrom(_, _, _)
RebuiltFrom(opt, obs, i) ==
    IF i > Len(obs) THEN opt
    ELSE RebuiltFrom(AddObservation(opt, obs[i].params, obs[i].value), obs, i + 1)

Rebuilt(opt) ==
    RebuiltFrom(NewOptimizer(opt.bounds, opt.maximize), opt.observations, 1)

C32_TrialsAreSeedCount ==
    [][/\ (StartManualInput /\ phase' = "manual") =>
             LET validParameters == ValidParameters(parameters)
             IN /\ Len(manualTrials') = trialCount
                /\ currentTrialIndex' = 0
                /\ \A i \in 1..Len(manualTrials') :
                      /\ manualTrials'[i].value = <<>>
                      /\ DOMAIN manualTrials'[i].params =
                            {Trim(validParameters[j].name) :
                                j \in 1..Len(validParameters)}
                      /\ Cardinality(DOMAIN manualTrials'[i].params) =
                            Len(validParameters)
                      /\ \A n \in DOMAIN manualTrials'[i].params :
                            manualTrials'[i].params[n] = <<>>
       /\ phase' = "manual" =>
             /\ Len(manualTrials') = trialCount'
             /\ phase = "manual" => trialCount' = trialCount]_vars

\* C33: when a session enters the optimization phase from manual seeding
\* the history holds one entry per seed trial, and from then on the history
\* is as long as the engine log.
C33_HistoryIsOnePerSeed ==
    [][/\ (phase = "manual" /\ phase' = "optimization") =>
             Len(history') = trialCount
       /\ (/\ phase' = "optimization" /\ optimizer' # Null /\ results' = Null
           /\ manualTrials' # <<>>) =>
             Len(history') = Len(optimizer'.observations)]_vars

\* C34: in the optimization phase, while a suggestion waits for the user's
\* objective value, the engine log holds currentIter - 1 observations.
C34_LogIsCounterMinusOne ==
    (OptimizationShown /\ optimizer # Null /\ results = Null) =>
        Len(optimizer.observations) = currentIter - 1

\* a resumed run waits for a value after one registration
C34_ResumedAndRegistered ==
    /\ OptimizationShown /\ optimizer # Null /\ results = Null
    /\ reloads > 0 /\ savedConfig # Null
    /\ currentIter = Len(storage.history) + 1
    /\ Len(optimizer.observations) > 2

\* C35: in the optimization phase the counter is between the seed count
\* plus one and the horizon, and a session that was not resumed completes
\* with exactly ExtraIters registrations after its seeds.
C35_CounterWithinHorizon ==
    /\ phase = "optimization" =>
          /\ trialCount + 1 <= currentIter
          /\ currentIter <= totalIter
    /\ (results # Null /\ reloads = 0) =>
          /\ optimizer # Null
          /\ Len(optimizer.observations) = trialCount + ExtraIters

\* C36: an observation handleRegister registers has the most recent
\* suggestion as its vector, and that suggestion was returned by suggest
\* after the registration before it.
C36_SuggestionRegisteredOnce ==
    [][\A k \in 1..Len(flows) :
          (/\ flows[k].kind = "register" /\ RegisterReturnsOf(k)
           /\ provider' # provider) =>
             /\ suggested
             /\ flows[k].numericParams = numericParams
             /\ provider'.observations[Len(provider'.observations)].params =
                   numericParams]_vars

\* C37: every state of the optimization phase is either completed with a
\* final result or shows a suggestion that handleRegister can register.
C37_CompletedOrRegistrable ==
    phase = "optimization" =>
        \/ results # Null /\ ~isOptimizing
        \/ /\ results = Null
           /\ OptimizationShown
           /\ optimizer # Null
           /\ numericParams # NullVector

\* C38: every objective value addObservation has stored in the engine log
\* is a finite number, never NaN.
C38_LoggedValuesAreNumbers ==
    optimizer # Null =>
        \A i \in 1..Len(optimizer.observations) :
            /\ ~IsNaN(optimizer.observations[i].value)
            /\ IsNum(optimizer.observations[i].value)

\* C39: on an empty log estimateMean returns 0 and calculateExploration
\* returns 1 for every candidate, so that calculateAcquisition is +1 when
\* maximizing and -1 when minimizing.  The engine taken is the one the
\* session holds, emptied; the candidates are the vectors suggest() can draw
\* from its bounds and the vectors of its log.
EmptyEngine == NewOptimizer(optimizer.bounds, optimizer.maximize)

EmptyLogCandidates ==
    {Candidate(optimizer.bounds, d) : d \in AllDraws(Len(optimizer.bounds))}
        \cup {optimizer.observations[i].params :
                 i \in 1..Len(optimizer.observations)}

C39_EmptyLogScores ==
    optimizer # Null =>
        \A x \in EmptyLogCandidates :
            /\ EstimateMean(EmptyEngine, x) = Num(0)
            /\ CalculateExploration(EmptyEngine, x) = Num(Unit)
            /\ CalculateAcquisition(EmptyEngine, x) =
                  IF optimizer.maximize THEN Num(Unit) ELSE Num(0 - Unit)

C39_MinimizingScored ==
    /\ optimizer # Null
    /\ ~optimizer.maximize
    /\ Len(optimizer.bounds) = 2
    /\ Len(optimizer.observations) >= ColdStart
    /\ \E x \in EmptyLogCandidates :
          /\ \A i \in 1..Len(x) : IsNum(x[i])
          /\ CalculateAcquisition(EmptyEngine, x) = Num(0 - Unit)

====
